---- MODULE Spec2Model ----
(***************************************************************************)
(* A model of src/docformer/modeling.py: the relative-position table, the  *)
(* spatial embedding builder, the multi-modal attention layer and the      *)
(* encoder stack.  Tensors are modelled by their shapes (sequences of      *)
(* naturals, with torch's broadcasting and einsum rules) where a claim is  *)
(* about shapes and errors, and by values in a finite ring where a claim   *)
(* is about data flow.                                                     *)
(***************************************************************************)
EXTENDS Integers, Sequences, FiniteSets, TLC

VARIABLES
    rp,       \* the RelativePosition instance
    rpOut,    \* the last RelativePosition.forward call and its result
    emb,      \* the DocFormerEmbeddings instance
    embOut,   \* the last DocFormerEmbeddings.forward call and its result
    attn,     \* the MultiModalAttentionLayer instance
    attnOut,  \* the last MultiModalAttentionLayer.forward call and its result
    doc,      \* a DocFormer instance: spatial_feature + encoder (shapes)
    docOut,   \* the last DocFormer.forward call and its result (shapes)
    net,      \* persistent state of a DocFormer instance (values)
    calls     \* the forward calls in flight on net (values)

vars == <<rp, rpOut, emb, embOut, attn, attnOut, doc, docOut, net, calls>>

(***************************************************************************)
(* Bounds of the model.                                                    *)
(***************************************************************************)
MaxRelPos == 3
MaxSeqLen == 3
MaxUnits == 2
NumSeeds == 2

\* The 8 geometric features per axis (the forward docstring, and the 8 tables
\* of each of x_embedding_v, y_embedding_v, x_embedding_t, y_embedding_t).
NumFeat == 8

Min(a, b) == IF a < b THEN a ELSE b
Max(a, b) == IF a > b THEN a ELSE b

NoModule == [status |-> "none"]
NoCall == [status |-> "none"]

(***************************************************************************)
(* Tensor shapes.  A shape is a sequence of naturals; ShapeError is the    *)
(* result of an operation torch rejects with a RuntimeError.               *)
(***************************************************************************)
ShapeError == << -1 >>

IsErr(s) == s = ShapeError

\* torch broadcasting of two sizes: equal, or one of them is 1.
BroadcastDim(a, b) ==
    IF a = b THEN a ELSE IF a = 1 THEN b ELSE IF b = 1 THEN a ELSE -1

\* The size of dimension i (counted from the right, 1 = last) of s, 1 if absent.
DimFromRight(s, i) == IF i <= Len(s) THEN s[Len(s) + 1 - i] ELSE 1

\* The function f on 1..n as the sequence <<f[1], ..., f[n]>>.
AsShape(f) == f \o <<>>

\* torch broadcasting of two shapes, aligned at the last dimension.
Broadcast(s, t) ==
    IF IsErr(s) \/ IsErr(t) THEN ShapeError
    ELSE LET n == Max(Len(s), Len(t))
             r == [i \in 1..n |->
                     BroadcastDim(DimFromRight(s, n + 1 - i), DimFromRight(t, n + 1 - i))]
         IN  IF \E i \in 1..n : r[i] = -1 THEN ShapeError ELSE AsShape(r)

(***************************************************************************)
(* RelativePosition                                                        *)
(***************************************************************************)

\* torch.arange(n): the vector 0, 1, ..., n-1, indexed from 0.
Arange(n) == [i \in 0..(n - 1) |-> i]

\* A mutant of Clamp: the lower bound is forgotten.
ClampUpperOnly(x, lo, hi) == Min(x, hi)

\* torch.clamp(x, min, max) = min(max(x, min), max).
Clamp(x, lo, hi) == Min(Max(x, lo), hi)

\* A mutant of DistanceMat: the two range vectors swapped (q - k).
DistanceMatSwapped(range_vec_q, range_vec_k) ==
    [q \in DOMAIN range_vec_q |-> [k \in DOMAIN range_vec_k |->
        range_vec_q[q] - range_vec_k[k]]]

\* A mutant of DistanceMat: the distance without its sign, |k - q|.
DistanceMatAbsolute(range_vec_q, range_vec_k) ==
    [q \in DOMAIN range_vec_q |-> [k \in DOMAIN range_vec_k |->
        Max(range_vec_k[k] - range_vec_q[q], range_vec_q[q] - range_vec_k[k])]]

\* range_vec_k[None, :] - range_vec_q[:, None]
DistanceMat(range_vec_q, range_vec_k) ==
    [q \in DOMAIN range_vec_q |-> [k \in DOMAIN range_vec_k |->
        range_vec_k[k] - range_vec_q[q]]]

\* xavier_uniform_ draws the table at random: one of a small family of tables
\* whose rows are pairwise distinct when there are at most ValMod of them.
ValMod == 7

XavierTables(rows) ==
    { [r \in 0..(rows - 1) |-> (r + s) % ValMod] : s \in 1..NumSeeds }

\* RelativePosition.__init__ up to the index table.
FinalMat(max_relative_position, max_seq_length) ==
    LET range_vec_q == Arange(max_seq_length)
        range_vec_k == Arange(max_seq_length)
        distance_mat == DistanceMat(range_vec_q, range_vec_k)
        distance_mat_clipped ==
            [q \in DOMAIN distance_mat |-> [k \in DOMAIN distance_mat[q] |->
                Clamp(distance_mat[q][k], -max_relative_position, max_relative_position)]]
    IN  [q \in DOMAIN distance_mat |-> [k \in DOMAIN distance_mat[q] |->
            distance_mat_clipped[q][k] + max_relative_position]]

\* RelativePosition.__init__ with the drawn embeddings_table.
RelativePosition(num_units, max_relative_position, max_seq_length, table) ==
    [status |-> "ok",
     num_units |-> num_units,
     max_relative_position |-> max_relative_position,
     embeddings_table |-> table,
     max_length |-> max_seq_length,
     final_mat |-> FinalMat(max_relative_position, max_seq_length)]

\* final_mat[:length_q, :length_k]: a Python slice stops at the end of the
\* dimension, it never raises.
SliceEnd(stop, size) == Min(stop, size)

\* RelativePosition.forward: the indices sliced, then looked up in the table.
RelativePositionForward(self, length_q, length_k) ==
    LET rows == SliceEnd(length_q, self.max_length)
        cols == SliceEnd(length_k, self.max_length)
        idx == [q \in 0..(rows - 1) |-> [k \in 0..(cols - 1) |-> self.final_mat[q][k]]]
    IN  IF \E q \in 0..(rows - 1) : \E k \in 0..(cols - 1) :
              idx[q][k] \notin DOMAIN self.embeddings_table
        THEN [status |-> "IndexError", length_q |-> length_q, length_k |-> length_k]
        ELSE [status |-> "ok", length_q |-> length_q, length_k |-> length_k,
              shape |-> <<rows, cols, self.num_units>>,
              embeddings |-> [q \in 0..(rows - 1) |-> [k \in 0..(cols - 1) |->
                                self.embeddings_table[idx[q][k]]]]]

RPConstruct ==
    /\ rp.status = "none"
    /\ \E num_units \in 1..MaxUnits, m \in 0..MaxRelPos, L \in 1..MaxSeqLen :
         \E table \in XavierTables(m * 2 + 1) :
            rp' = RelativePosition(num_units, m, L, table)
    /\ UNCHANGED <<rpOut, emb, embOut, attn, attnOut, doc, docOut, net, calls>>

RPForward ==
    /\ rp.status = "ok"
    /\ \E length_q \in 0..(rp.max_length + 1), length_k \in 0..(rp.max_length + 1) :
         rpOut' = RelativePositionForward(rp, length_q, length_k)
    /\ UNCHANGED <<rp, emb, embOut, attn, attnOut, doc, docOut, net, calls>>

IdleRP == rp = NoModule /\ rpOut = NoCall
IdleEmb == emb = NoModule /\ embOut = NoCall
IdleAttn == attn = NoModule /\ attnOut = NoCall
IdleDoc == doc = NoModule /\ docOut = NoCall
IdleNet == net = NoModule /\ calls = <<>>

InitRP == IdleRP /\ IdleEmb /\ IdleAttn /\ IdleDoc /\ IdleNet

NextRP == RPConstruct \/ RPForward

SpecRP == InitRP /\ [][NextRP]_vars

\* C1: for every m >= 0, L >= 1 and positions q, k in 0..L-1 the index table
\* entry is clip(k - q, -m, m) + m.
C1_IndexTable ==
    rp.status = "ok" =>
        LET m == rp.max_relative_position IN
        /\ DOMAIN rp.final_mat = 0..(rp.max_length - 1)
        /\ \A q \in 0..(rp.max_length - 1) :
             /\ DOMAIN rp.final_mat[q] = 0..(rp.max_length - 1)
             /\ \A k \in 0..(rp.max_length - 1) :
                  rp.final_mat[q][k] =
                      (IF k - q > m THEN m ELSE IF k - q < -m THEN -m ELSE k - q) + m

C1_Witness ==
    /\ rp.status = "ok"
    /\ rp.max_length = 3
    /\ rp.max_relative_position = 1
    /\ rp.final_mat[0][2] = 2
    /\ rp.final_mat[2][0] = 0
    /\ rp.final_mat[1][2] = 2

\* C2: every pair with k - q >= m maps to row 2m, every pair with k - q <= -m
\* maps to row 0, and every entry is a valid row index in 0..2m.
C2_BoundaryRows ==
    rp.status = "ok" =>
        LET m == rp.max_relative_position IN
        \A q \in DOMAIN rp.final_mat : \A k \in DOMAIN rp.final_mat[q] :
            /\ (k - q >= m => rp.final_mat[q][k] = 2 * m)
            /\ (k - q <= -m => rp.final_mat[q][k] = 0)
            /\ rp.final_mat[q][k] \in 0..(2 * m)
            /\ rp.final_mat[q][k] \in DOMAIN rp.embeddings_table

C2_Witness ==
    /\ rp.status = "ok"
    /\ rp.max_relative_position = 1
    /\ rp.max_length = 3
    /\ rp.final_mat[0][1] = 2
    /\ rp.final_mat[0][2] = 2
    /\ rp.final_mat[1][0] = 0
    /\ rp.final_mat[2][0] = 0

\* C3: RelativePosition.forward ends in an error whenever length_q or
\* length_k exceeds max_seq_length.
C3_ForwardOutOfBoundsFails ==
    (rpOut.status # "none"
       /\ (rpOut.length_q > rp.max_length \/ rpOut.length_k > rp.max_length))
    => rpOut.status # "ok"


(***************************************************************************)
(* PositionalEncoding and DocFormerEmbeddings                              *)
(***************************************************************************)
MaxHidden == 16
MaxPosEmb == 3
Max2DPos == 2
MaxCoord == 2
MaxBatch == 2


\* The number of indices start, start + 2, ... below n: the length of
\* torch.arange(start, n, 2) and of the slice [start::2] of a size-n dimension.
StridedLen(start, n) == IF n <= start THEN 0 ELSE (n - start + 1) \div 2

\* Whether a tensor of shape value may be assigned to a slice of shape target:
\* value must broadcast to target.
AssignOK(target, value) == Broadcast(target, value) = target

\* PositionalEncoding.__init__: pe[0, :, 0::2] = sin(position * div_term) and
\* pe[0, :, 1::2] = cos(position * div_term) are slice assignments.
PositionalEncoding(d_model, max_len) ==
    LET div_term == StridedLen(0, d_model)
        product == Broadcast(<<max_len, 1>>, <<div_term>>)
    IN  IF /\ AssignOK(<<max_len, StridedLen(0, d_model)>>, product)
           /\ AssignOK(<<max_len, StridedLen(1, d_model)>>, product)
        THEN [status |-> "ok", max_len |-> max_len, d_model |-> d_model,
              pe |-> <<1, max_len, d_model>>]
        ELSE [status |-> "RuntimeError"]

\* PositionalEncoding.forward: self.pe[0, :self.max_len] unsqueezed at 0.
PositionalEncodingForward(self) ==
    <<1, SliceEnd(self.max_len, self.pe[2]), self.pe[3]>>

\* nn.Embedding(num_embeddings, embedding_dim); id names the parameter.
Embedding(num_embeddings, embedding_dim, id) ==
    [num_embeddings |-> num_embeddings, embedding_dim |-> embedding_dim, id |-> id]

\* The width of the i-th table of an axis (i from 0): the two position tables
\* have coordinate_size columns, the other six shape_size columns.
TableWidth(config, i) == IF i < 2 THEN config.coordinate_size ELSE config.shape_size

\* The list of 8 tables of one axis of one stream, indexed from 0.
EmbeddingList(config, axis, stream) ==
    [i \in 0..(NumFeat - 1) |->
        Embedding(config.max_2d_position_embeddings, TableWidth(config, i),
                  <<axis, stream, i>>)]

\* DocFormerEmbeddings.__init__: no check of the configuration; the only
\* failure is the one PositionalEncoding.__init__ raises.
DocFormerEmbeddings(config) ==
    LET pos == PositionalEncoding(config.hidden_size, config.max_position_embeddings)
    IN  IF pos.status # "ok" THEN [status |-> pos.status]
        ELSE [status |-> "ok", config |-> config,
              position_embeddings_v |-> pos,
              position_embeddings_t |-> pos,
              x_embedding_v |-> EmbeddingList(config, "x", "v"),
              y_embedding_v |-> EmbeddingList(config, "y", "v"),
              x_embedding_t |-> EmbeddingList(config, "x", "t"),
              y_embedding_t |-> EmbeddingList(config, "y", "t")]

\* torch.zeros(batch, seq_len, hidden_size): no column written yet.  A tensor
\* under construction records, per hidden column, the tables written to it.
Zeros(shape) ==
    [status |-> "ok", shape |-> shape,
     cols |-> [p \in 0..(shape[Len(shape)] - 1) |-> <<>>]]

\* target[..., lo:hi] = table(index): the lookup fails on an index outside the
\* table, the assignment on a width that does not broadcast to the slice.
\* index is [shape, val]: a tensor of that shape filled with val.
AssignEmbedding(target, lo, hi, table, index) ==
    IF target.status # "ok" THEN target
    ELSE IF index.val \notin 0..(table.num_embeddings - 1)
    THEN [status |-> "IndexError"]
    ELSE LET size == target.shape[Len(target.shape)]
             from == SliceEnd(lo, size)
             to == Max(from, SliceEnd(hi, size))
             slice == SubSeq(target.shape, 1, Len(target.shape) - 1) \o <<to - from>>
             value == index.shape \o <<table.embedding_dim>>
         IN  IF ~AssignOK(slice, value) THEN [status |-> "RuntimeError"]
             ELSE [target EXCEPT !.cols =
                      [p \in DOMAIN target.cols |->
                          IF from <= p /\ p < to
                          THEN Append(target.cols[p], table.id) ELSE target.cols[p]]]

\* x_feature[:, :, i]
Column(feature, i) ==
    [shape |-> SubSeq(feature.shape, 1, Len(feature.shape) - 1), val |-> feature.val]

\* A mutant of FeatureStep: each slice is one column too long, so a sub-band
\* runs into the next one.
FeatureStepOverlapping(i, sub_dim, x_embedding, y_embedding, x_feature, y_feature, acc) ==
    LET x == AssignEmbedding(acc.x, i * sub_dim, (i + 1) * sub_dim + 1,
                             x_embedding[i], Column(x_feature, i))
    IN  IF x.status # "ok" THEN [x |-> x, y |-> acc.y]
        ELSE [x |-> x,
              y |-> AssignEmbedding(acc.y, i * sub_dim, (i + 1) * sub_dim + 1,
                                    y_embedding[i], Column(y_feature, i))]

\* One iteration of the loop "for i in range(num_feat)" of
\* DocFormerEmbeddings.forward; acc holds the two tensors being filled.
FeatureStep(i, sub_dim, x_embedding, y_embedding, x_feature, y_feature, acc) ==
    LET x == AssignEmbedding(acc.x, i * sub_dim, (i + 1) * sub_dim,
                             x_embedding[i], Column(x_feature, i))
    IN  IF x.status # "ok" THEN [x |-> x, y |-> acc.y]
        ELSE [x |-> x,
              y |-> AssignEmbedding(acc.y, i * sub_dim, (i + 1) * sub_dim,
                                    y_embedding[i], Column(y_feature, i))]

\* The loop from iteration i on; it ends at the first error.
RECURSIVE FeatureLoop(_, _, _, _, _, _, _, _)
FeatureLoop(i, num_feat, sub_dim, x_embedding, y_embedding, x_feature, y_feature, acc) ==
    IF i >= num_feat \/ acc.x.status # "ok" \/ acc.y.status # "ok" THEN acc
    ELSE FeatureLoop(i + 1, num_feat, sub_dim, x_embedding, y_embedding,
                     x_feature, y_feature,
                     FeatureStep(i, sub_dim, x_embedding, y_embedding,
                                 x_feature, y_feature, acc))

\* The end of one stream: x_calculated_embedding + y_calculated_embedding +
\* position_embeddings().
StreamSum(filled, position_embeddings) ==
    IF filled.x.status # "ok" THEN [status |-> filled.x.status]
    ELSE IF filled.y.status # "ok" THEN [status |-> filled.y.status]
    ELSE LET sum == Broadcast(Broadcast(filled.x.shape, filled.y.shape),
                              PositionalEncodingForward(position_embeddings))
         IN  IF IsErr(sum) THEN [status |-> "RuntimeError"]
             ELSE [status |-> "ok", shape |-> sum,
                   x_cols |-> filled.x.cols, y_cols |-> filled.y.cols]

\* One stream of DocFormerEmbeddings.forward: the two zero tensors, the loop,
\* and the sum.
SpatialStream(self, x_embedding, y_embedding, position_embeddings, x_feature, y_feature) ==
    LET batch == x_feature.shape[1]
        seq_len == x_feature.shape[2]
        hidden_size == self.config.hidden_size
        num_feat == x_feature.shape[3]
        sub_dim == hidden_size \div num_feat
        zero == Zeros(<<batch, seq_len, hidden_size>>)
    IN  StreamSum(FeatureLoop(0, num_feat, sub_dim, x_embedding, y_embedding,
                              x_feature, y_feature, [x |-> zero, y |-> zero]),
                  position_embeddings)

\* The value DocFormerEmbeddings.forward returns, or the error it raises.
EmbeddingsResult(x_feature, y_feature, v_bar_s, t_bar_s) ==
    IF v_bar_s.status # "ok"
    THEN [status |-> v_bar_s.status, x_feature |-> x_feature, y_feature |-> y_feature]
    ELSE IF t_bar_s.status # "ok"
    THEN [status |-> t_bar_s.status, x_feature |-> x_feature, y_feature |-> y_feature]
    ELSE [status |-> "ok", x_feature |-> x_feature, y_feature |-> y_feature,
          v_bar_s |-> v_bar_s, t_bar_s |-> t_bar_s]

\* DocFormerEmbeddings.forward: the visual stream, then the text stream.
DocFormerEmbeddingsForward(self, x_feature, y_feature) ==
    EmbeddingsResult(x_feature, y_feature,
                     SpatialStream(self, self.x_embedding_v, self.y_embedding_v,
                                   self.position_embeddings_v, x_feature, y_feature),
                     SpatialStream(self, self.x_embedding_t, self.y_embedding_t,
                                   self.position_embeddings_t, x_feature, y_feature))

\* The configurations the model draws from.
EmbConfigs ==
    [hidden_size : NumFeat..MaxHidden,
     max_position_embeddings : 1..MaxPosEmb,
     max_2d_position_embeddings : 1..Max2DPos,
     coordinate_size : 1..MaxCoord,
     shape_size : 1..MaxCoord]

\* Feature tensors of shape (batch, seq_len, 8) filled with one bucket index;
\* the index max_2d_position_embeddings is the first one out of range.
FeatureTensors(batch, seq_len, max_2d) ==
    [shape : {<<batch, seq_len, NumFeat>>}, val : 0..max_2d]

EmbConstruct ==
    /\ emb.status = "none"
    /\ \E config \in EmbConfigs : emb' = DocFormerEmbeddings(config)
    /\ UNCHANGED <<rp, rpOut, embOut, attn, attnOut, doc, docOut, net, calls>>

\* One forward call on the constructed module.
EmbForward ==
    /\ emb.status = "ok"
    /\ embOut.status = "none"
    /\ \E batch \in 1..MaxBatch, seq_len \in 1..(emb.config.max_position_embeddings + 1) :
         \E x_feature \in FeatureTensors(batch, seq_len, emb.config.max_2d_position_embeddings),
            y_feature \in FeatureTensors(batch, seq_len, emb.config.max_2d_position_embeddings) :
            embOut' = DocFormerEmbeddingsForward(emb, x_feature, y_feature)
    /\ UNCHANGED <<rp, rpOut, emb, attn, attnOut, doc, docOut, net, calls>>

InitEmb == IdleRP /\ IdleEmb /\ IdleAttn /\ IdleDoc /\ IdleNet

NextEmb == EmbConstruct \/ EmbForward

SpecEmb == InitEmb /\ [][NextEmb]_vars

\* The configuration and inputs the contract of the builder takes for granted:
\* every table as wide as a sub-band and every bucket index inside the tables.
EmbInputsValid ==
    /\ emb.config.coordinate_size * NumFeat = emb.config.hidden_size
    /\ emb.config.shape_size * NumFeat = emb.config.hidden_size
    /\ embOut.x_feature.val < emb.config.max_2d_position_embeddings
    /\ embOut.y_feature.val < emb.config.max_2d_position_embeddings

\* C4: for every batch >= 1 and 1 <= seq_len <= max_position_embeddings, with
\* hidden_size divisible by 8, forward returns without error v_bar_s and
\* t_bar_s, each of shape (batch, seq_len, hidden_size).
C4_ForwardShape ==
    (/\ embOut.status # "none"
     /\ emb.config.hidden_size % NumFeat = 0
     /\ EmbInputsValid
     /\ embOut.x_feature.shape[2] <= emb.config.max_position_embeddings)
    => /\ embOut.status = "ok"
       /\ embOut.v_bar_s.shape = <<embOut.x_feature.shape[1], embOut.x_feature.shape[2],
                                   emb.config.hidden_size>>
       /\ embOut.t_bar_s.shape = <<embOut.x_feature.shape[1], embOut.x_feature.shape[2],
                                   emb.config.hidden_size>>

\* C5: constructing DocFormerEmbeddings with a hidden_size not divisible by 8
\* fails; no constructed module has such a hidden_size.
C5_ConstructionRejectsIndivisible ==
    emb.status = "ok" => emb.config.hidden_size % NumFeat = 0


(***************************************************************************)
(* MultiModalAttentionLayer                                                *)
(***************************************************************************)
MaxEmbed == 4
MaxHeads == 3

\* nn.Linear(in_features, out_features) applied to a tensor of shape s.
Linear(in_features, out_features, s) ==
    IF IsErr(s) \/ Len(s) = 0 THEN ShapeError
    ELSE IF s[Len(s)] # in_features THEN ShapeError
    ELSE SubSeq(s, 1, Len(s) - 1) \o <<out_features>>

\* A mutant of RearrangeSplit: the heads are put after the batch.
RearrangeSplitBatchFirst(s, head) ==
    IF IsErr(s) \/ Len(s) # 3 THEN ShapeError
    ELSE IF s[3] % head # 0 THEN ShapeError
    ELSE <<s[1], head, s[2], s[3] \div head>>

\* rearrange(x, 'b t (head k) -> head b t k', head=head)
RearrangeSplit(s, head) ==
    IF IsErr(s) \/ Len(s) # 3 THEN ShapeError
    ELSE IF s[3] % head # 0 THEN ShapeError
    ELSE <<head, s[1], s[2], s[3] \div head>>

\* rearrange(x, 'head b t d -> b t (head d)')
RearrangeMerge(s) ==
    IF IsErr(s) \/ Len(s) # 4 THEN ShapeError
    ELSE <<s[2], s[3], s[1] * s[4]>>

\* The sizes an einsum gives to subscript c: those of the dimensions of the
\* two operands labelled c.
LabelSizes(c, l1, s1, l2, s2) ==
    {s1[i] : i \in {j \in 1..Len(l1) : l1[j] = c}}
        \cup {s2[i] : i \in {j \in 1..Len(l2) : l2[j] = c}}

\* torch.einsum on two operands: dimensions with the same subscript must have
\* the same size or size 1 (they broadcast); the output has the subscripts of
\* out, in that order.
Einsum(l1, l2, out, s1, s2) ==
    IF IsErr(s1) \/ IsErr(s2) \/ Len(s1) # Len(l1) \/ Len(s2) # Len(l2) THEN ShapeError
    ELSE LET labels == {l1[i] : i \in 1..Len(l1)} \cup {l2[i] : i \in 1..Len(l2)}
             size == [c \in labels |->
                        LET big == LabelSizes(c, l1, s1, l2, s2) \ {1}
                        IN  IF Cardinality(big) > 1 THEN -1
                            ELSE IF big = {} THEN 1
                            ELSE CHOOSE n \in big : TRUE]
         IN  IF \E c \in labels : size[c] = -1 THEN ShapeError
             ELSE AsShape([i \in 1..Len(out) |-> size[out[i]]])

\* A mutant of MultiModalAttentionLayer: the constructor without its assert.
MultiModalAttentionLayerUnchecked(embed_dim, n_heads, max_relative_position, max_seq_length, table_text, table_img) ==
    LET head_dim == embed_dim \div n_heads
    IN  [status |-> "ok", embed_dim |-> embed_dim, n_heads |-> n_heads,
         head_dim |-> head_dim,
         relative_positions_text |->
             RelativePosition(head_dim, max_relative_position, max_seq_length, table_text),
         relative_positions_img |->
             RelativePosition(head_dim, max_relative_position, max_seq_length, table_img),
         scale |-> <<1>>]

\* MultiModalAttentionLayer.__init__, with the two drawn relative-position
\* tables.  A failed constructor leaves no module: the record keeps only the
\* error and the arguments.
MultiModalAttentionLayer(embed_dim, n_heads, max_relative_position, max_seq_length, table_text, table_img) ==
    IF embed_dim % n_heads # 0
    THEN [status |-> "AssertionError", embed_dim |-> embed_dim, n_heads |-> n_heads]
    ELSE LET head_dim == embed_dim \div n_heads
         IN  [status |-> "ok", embed_dim |-> embed_dim, n_heads |-> n_heads,
              head_dim |-> head_dim,
              relative_positions_text |->
                  RelativePosition(head_dim, max_relative_position, max_seq_length, table_text),
              relative_positions_img |->
                  RelativePosition(head_dim, max_relative_position, max_seq_length, table_img),
              scale |-> <<1>>]

\* The shape RelativePosition.forward returns, or ShapeError.
RelPosShape(self, length_q, length_k) ==
    LET r == RelativePositionForward(self, length_q, length_k)
    IN  IF r.status = "ok" THEN r.shape ELSE ShapeError

\* The attention scores of one modality: content, relative-key,
\* relative-query and spatial terms, and their sum.
ModalityScores(self, feat, spatial_feat, rel_pos_embed) ==
    LET e == self.embed_dim
        key_nh == RearrangeSplit(Linear(e, e, feat), self.n_heads)
        query_nh == RearrangeSplit(Linear(e, e, feat), self.n_heads)
        value_nh == RearrangeSplit(Linear(e, e, feat), self.n_heads)
        dots == Broadcast(Einsum(<<"h","b","l","k">>, <<"h","b","t","k">>,
                                 <<"h","b","l","t">>, query_nh, key_nh), self.scale)
        rel_pos_key == Einsum(<<"b","h","r","d">>, <<"l","r","d">>,
                              <<"b","h","l","r">>, key_nh, rel_pos_embed)
        rel_pos_query == Einsum(<<"b","h","l","d">>, <<"l","r","d">>,
                                <<"b","h","l","r">>, query_nh, rel_pos_embed)
        key_spatial_nh == RearrangeSplit(Linear(e, e, spatial_feat), self.n_heads)
        query_spatial_nh == RearrangeSplit(Linear(e, e, spatial_feat), self.n_heads)
        dots_spatial == Broadcast(Einsum(<<"h","b","l","k">>, <<"h","b","t","k">>,
                                         <<"h","b","l","t">>,
                                         query_spatial_nh, key_spatial_nh), self.scale)
        attn_scores == Broadcast(Broadcast(Broadcast(dots, rel_pos_key), rel_pos_query),
                                 dots_spatial)
    IN  [value_nh |-> value_nh, dots |-> dots, rel_pos_key |-> rel_pos_key,
         rel_pos_query |-> rel_pos_query, dots_spatial |-> dots_spatial,
         attn_scores |-> attn_scores]

\* MultiModalAttentionLayer.forward on the shapes of its four inputs.  Both
\* modalities use rel_pos_embed_text; rel_pos_embed_img is computed and unused.
AttentionForward(self, text_feat, img_feat, text_spatial_feat, img_spatial_feat) ==
    LET seq_length == text_feat[2]
        rel_pos_embed_text == RelPosShape(self.relative_positions_text, seq_length, seq_length)
        text == ModalityScores(self, text_feat, text_spatial_feat, rel_pos_embed_text)
        rel_pos_embed_img == RelPosShape(self.relative_positions_img, seq_length, seq_length)
        img == ModalityScores(self, img_feat, img_spatial_feat, rel_pos_embed_text)
        text_context == Einsum(<<"h","b","l","t">>, <<"h","b","t","v">>,
                               <<"h","b","l","v">>, text.attn_scores, text.value_nh)
        img_context == Einsum(<<"h","b","l","t">>, <<"h","b","t","v">>,
                              <<"h","b","l","v">>, img.attn_scores, img.value_nh)
        context == Broadcast(text_context, img_context)
        embeddings == RearrangeMerge(context)
        out == Linear(self.embed_dim, self.embed_dim, embeddings)
    IN  [status |-> IF IsErr(out) THEN "RuntimeError" ELSE "ok",
         text_feat |-> text_feat, img_feat |-> img_feat,
         text_spatial_feat |-> text_spatial_feat, img_spatial_feat |-> img_spatial_feat,
         text |-> text, img |-> img, out |-> out]

AttnConstruct ==
    /\ attn.status = "none"
    /\ \E embed_dim \in 1..MaxEmbed, n_heads \in 1..MaxHeads,
          m \in 0..MaxRelPos, L \in 1..MaxSeqLen :
         \E table_text \in XavierTables(m * 2 + 1), table_img \in XavierTables(m * 2 + 1) :
            attn' = MultiModalAttentionLayer(embed_dim, n_heads, m, L, table_text, table_img)
    /\ UNCHANGED <<rp, rpOut, emb, embOut, attnOut, doc, docOut, net, calls>>

\* One forward call on the constructed layer; the text inputs have seq_len
\* positions and the image inputs img_len.
AttnForward ==
    /\ attn.status = "ok"
    /\ attnOut.status = "none"
    /\ \E batch \in 1..MaxBatch,
          seq_len \in 1..(attn.relative_positions_text.max_length + 1),
          img_len \in 1..(attn.relative_positions_text.max_length + 1) :
         attnOut' = AttentionForward(attn, <<batch, seq_len, attn.embed_dim>>,
                                     <<batch, img_len, attn.embed_dim>>,
                                     <<batch, seq_len, attn.embed_dim>>,
                                     <<batch, img_len, attn.embed_dim>>)
    /\ UNCHANGED <<rp, rpOut, emb, embOut, attn, doc, docOut, net, calls>>

InitAttn == IdleRP /\ IdleEmb /\ IdleAttn /\ IdleDoc /\ IdleNet

NextAttn == AttnConstruct \/ AttnForward

SpecAttn == InitAttn /\ [][NextAttn]_vars

\* C6: construction with embed_dim not divisible by n_heads fails, before any
\* forward call; with embed_dim divisible by n_heads it succeeds with
\* head_dim * n_heads = embed_dim.
C6_ConstructionAssert ==
    /\ attn.status # "none" =>
          /\ (attn.embed_dim % attn.n_heads # 0 => attn.status = "AssertionError")
          /\ (attn.embed_dim % attn.n_heads = 0 =>
                 attn.status = "ok" /\ attn.head_dim * attn.n_heads = attn.embed_dim)
    /\ attnOut.status # "none" => attn.embed_dim % attn.n_heads = 0

C6_Witness ==
    attn.status = "AssertionError" /\ attn.embed_dim = 3 /\ attn.n_heads = 2

\* The score tensors of one modality.
ScoreTensors(m) ==
    {m.dots, m.rel_pos_key, m.rel_pos_query, m.dots_spatial, m.attn_scores}

\* C8: for a valid configuration, 1 <= seq_len <= max_seq_length and four
\* inputs of the same shape (batch, seq_len, embed_dim), forward returns a
\* tensor of the shape of text_feat and every score tensor has the shape
\* (heads, batch, seq_len, seq_len).
C8_OutputShape ==
    (/\ attnOut.status # "none"
     /\ attnOut.text_feat[2] <= attn.relative_positions_text.max_length
     /\ attnOut.img_feat = attnOut.text_feat
     /\ attnOut.text_spatial_feat = attnOut.text_feat
     /\ attnOut.img_spatial_feat = attnOut.text_feat)
    => /\ attnOut.status = "ok"
       /\ attnOut.out = attnOut.text_feat
       /\ \A t \in ScoreTensors(attnOut.text) \cup ScoreTensors(attnOut.img) :
             t = <<attn.n_heads, attnOut.text_feat[1], attnOut.text_feat[2],
                   attnOut.text_feat[2]>>

C8_Witness ==
    /\ attnOut.status = "ok"
    /\ attn.n_heads = 2
    /\ attn.embed_dim = 4
    /\ attnOut.text_feat = <<2, 3, 4>>
    /\ attnOut.img_feat = <<2, 3, 4>>
    /\ attnOut.out = <<2, 3, 4>>
    /\ attnOut.text.attn_scores = <<2, 2, 3, 3>>


(***************************************************************************)
(* DocFormerEncoder and DocFormer, on shapes                               *)
(***************************************************************************)
MaxLayers == 2

\* nn.LayerNorm(dim) applied to a tensor of shape s.
LayerNorm(dim, s) ==
    IF IsErr(s) \/ Len(s) = 0 THEN ShapeError
    ELSE IF s[Len(s)] # dim THEN ShapeError
    ELSE s

\* FeedForward.forward: Linear(dim, hidden_dim), GELU, Dropout,
\* Linear(hidden_dim, dim), Dropout.
FeedForward(dim, hidden_dim, s) == Linear(hidden_dim, dim, Linear(dim, hidden_dim, s))

\* One encoder block built by DocFormerEncoder.__init__; a failed attention
\* constructor fails the block.
EncoderBlock(config) ==
    LET rows == config.max_relative_positions * 2 + 1
        table == CHOOSE t \in XavierTables(rows) : TRUE
        fn == MultiModalAttentionLayer(config.hidden_size, config.num_attention_heads,
                                       config.max_relative_positions,
                                       config.max_position_embeddings, table, table)
    IN  IF fn.status # "ok" THEN [status |-> fn.status]
        ELSE [status |-> "ok", dim |-> config.hidden_size, attn |-> fn,
              ff_hidden_dim |-> config.hidden_size * config.intermediate_ff_size_factor]

\* DocFormerEncoder.__init__: num_hidden_layers blocks.
DocFormerEncoder(config) ==
    LET block == EncoderBlock(config)
    IN  IF config.num_hidden_layers > 0 /\ block.status # "ok"
        THEN [status |-> block.status]
        ELSE [status |-> "ok", layers |-> [n \in 1..config.num_hidden_layers |-> block]]

\* PreNormAttn.forward: the four layer norms, then the attention layer.
PreNormAttnForward(block, t_bar, v_bar, t_bar_s, v_bar_s) ==
    AttentionForward(block.attn, LayerNorm(block.dim, t_bar), LayerNorm(block.dim, v_bar),
                     LayerNorm(block.dim, t_bar_s), LayerNorm(block.dim, v_bar_s)).out

\* PreNorm.forward around FeedForward.
PreNormForward(block, x) == FeedForward(block.dim, block.ff_hidden_dim, LayerNorm(block.dim, x))

\* The body of the loop of DocFormerEncoder.forward: the shape of the new x.
EncoderLayerForward(block, text_feat, img_feat, text_spatial_feat, img_spatial_feat) ==
    LET skip == Broadcast(Broadcast(Broadcast(text_feat, img_feat), text_spatial_feat),
                          img_spatial_feat)
        x == IF IsErr(skip) THEN ShapeError
             ELSE Broadcast(PreNormAttnForward(block, text_feat, img_feat,
                                               text_spatial_feat, img_spatial_feat), skip)
    IN  Broadcast(PreNormForward(block, x), x)

\* DocFormerEncoder.forward from layer n on, text_feat being the output of
\* the layer before; the shape returned, or ShapeError.
RECURSIVE EncoderForward(_, _, _, _, _, _)
EncoderForward(self, n, text_feat, img_feat, text_spatial_feat, img_spatial_feat) ==
    IF IsErr(text_feat) \/ n > Len(self.layers) THEN text_feat
    ELSE EncoderForward(self, n + 1,
                        EncoderLayerForward(self.layers[n], text_feat, img_feat,
                                            text_spatial_feat, img_spatial_feat),
                        img_feat, text_spatial_feat, img_spatial_feat)

\* DocFormer.__init__: the spatial embedding builder of ExtractFeatures and
\* the encoder.  A failed constructor leaves no module.
DocFormer(config) ==
    LET spatial_feature == DocFormerEmbeddings(config)
        encoder == DocFormerEncoder(config)
    IN  IF spatial_feature.status # "ok"
        THEN [status |-> spatial_feature.status, config |-> config]
        ELSE IF encoder.status # "ok" THEN [status |-> encoder.status, config |-> config]
        ELSE [status |-> "ok", config |-> config,
              spatial_feature |-> spatial_feature, encoder |-> encoder]

\* DocFormer.forward from the features on: v_bar and t_bar, of the shapes
\* given, come from the image backbone and the token embedding; the spatial
\* embeddings are built and the four go through the encoder.
DocFormerForward(self, v_bar, t_bar, x_feature, y_feature) ==
    LET spatial == DocFormerEmbeddingsForward(self.spatial_feature, x_feature, y_feature)
        output == EncoderForward(self.encoder, 1, t_bar, v_bar,
                                 spatial.t_bar_s.shape, spatial.v_bar_s.shape)
    IN  IF spatial.status # "ok"
        THEN [status |-> spatial.status, stage |-> "spatial_feature",
              x_feature |-> x_feature, y_feature |-> y_feature]
        ELSE IF IsErr(output)
        THEN [status |-> "RuntimeError", stage |-> "encoder",
              x_feature |-> x_feature, y_feature |-> y_feature]
        ELSE [status |-> "ok", stage |-> "encoder",
              x_feature |-> x_feature, y_feature |-> y_feature, output |-> output]

\* The configurations the model draws from: every table of the builder has
\* the same width, and the relative positions are clipped at 0 or MaxRelPos.
DocConfigs ==
    {[hidden_size |-> h, num_attention_heads |-> a, max_relative_positions |-> m,
      max_position_embeddings |-> p, max_2d_position_embeddings |-> d,
      coordinate_size |-> c, shape_size |-> c, num_hidden_layers |-> n,
      intermediate_ff_size_factor |-> 2] :
        h \in NumFeat..MaxHidden, a \in 1..MaxHeads, m \in {0, MaxRelPos},
        p \in 1..MaxPosEmb, d \in 1..Max2DPos, c \in 1..MaxCoord, n \in 1..MaxLayers}

DocConstruct ==
    /\ doc.status = "none"
    /\ \E config \in DocConfigs : doc' = DocFormer(config)
    /\ UNCHANGED <<rp, rpOut, emb, embOut, attn, attnOut, docOut, net, calls>>

\* One forward call on the constructed model: both feature tensors are
\* filled with the same bucket index.
DocForward ==
    /\ doc.status = "ok"
    /\ docOut.status = "none"
    /\ \E batch \in 1..MaxBatch, seq_len \in 1..(doc.config.max_position_embeddings + 1) :
         \E feature \in FeatureTensors(batch, seq_len, doc.config.max_2d_position_embeddings) :
            docOut' = DocFormerForward(doc, <<batch, seq_len, doc.config.hidden_size>>,
                                       <<batch, seq_len, doc.config.hidden_size>>,
                                       feature, feature)
    /\ UNCHANGED <<rp, rpOut, emb, embOut, attn, attnOut, doc, net, calls>>

InitDoc == IdleRP /\ IdleEmb /\ IdleAttn /\ IdleDoc /\ IdleNet

NextDoc == DocConstruct \/ DocForward

SpecDoc == InitDoc /\ [][NextDoc]_vars

\* C7: a forward pass through the spatial embedding builder and the encoder
\* succeeds with seq_len = max_position_embeddings and fails with
\* seq_len = max_position_embeddings + 1.
C7_SeqLenBoundary ==
    docOut.status # "none" =>
        LET seq_len == docOut.x_feature.shape[2]
            valid == /\ doc.config.coordinate_size * NumFeat = doc.config.hidden_size
                     /\ docOut.x_feature.val < doc.config.max_2d_position_embeddings
        IN  /\ (seq_len = doc.config.max_position_embeddings /\ valid
                   => docOut.status = "ok")
            /\ (seq_len = doc.config.max_position_embeddings + 1
                   => docOut.status # "ok")


(***************************************************************************)
(* DocFormer on values.  A tensor is abstracted to one element of the ring *)
(* of integers modulo ValMod: sums (and the concatenation of sub-bands)    *)
(* are ring sums, products with weights and between tensors are ring       *)
(* products, and softmax and GELU are one fixed function of the ring.      *)
(* Every sequence has one position.  Dropout is disabled (evaluation).     *)
(***************************************************************************)

\* A local variable not yet bound.
Undef == -1

Add(a, b) == (a + b) % ValMod
Mul(a, b) == (a * b) % ValMod

\* softmax and GELU: a fixed function of its argument alone.
Activation(a) == (a * a + 1) % ValMod

\* The k-th parameter of a model initialised with seed.
Weight(seed, k) == (seed * k + k * k + seed) % ValMod

\* The values the features t_bar and v_bar take, and the bucket indices.
FeatureValues == {1, 2}
BucketValues == {0, 1}

\* The parameters of DocFormerEmbeddings: per stream and axis, 8 tables with
\* a row per bucket index, and the positional-encoding buffer pe.
SpatialParams(seed) ==
    [x_embedding_v |-> [i \in 0..(NumFeat - 1) |-> [b \in BucketValues |-> Weight(seed, i + 2 * b)]],
     y_embedding_v |-> [i \in 0..(NumFeat - 1) |-> [b \in BucketValues |-> Weight(seed, i + 3 * b + 1)]],
     x_embedding_t |-> [i \in 0..(NumFeat - 1) |-> [b \in BucketValues |-> Weight(seed, i + 4 * b + 2)]],
     y_embedding_t |-> [i \in 0..(NumFeat - 1) |-> [b \in BucketValues |-> Weight(seed, i + 5 * b + 3)]],
     pe_v |-> 1,
     pe_t |-> 1]

\* The parameters of one encoder block: PreNormAttn's four layer norms, the
\* attention layer's projections and relative-position modules, PreNorm's
\* layer norm and the two linear maps of FeedForward.
BlockParams(seed, n) ==
    LET w(k) == Weight(seed, k + 3 * n) IN
    [norm_t_bar |-> [weight |-> 1 + (w(1) % 2), bias |-> w(2)],
     norm_v_bar |-> [weight |-> 1 + (w(3) % 2), bias |-> w(4)],
     norm_t_bar_s |-> [weight |-> 1 + (w(5) % 2), bias |-> w(6)],
     norm_v_bar_s |-> [weight |-> 1 + (w(7) % 2), bias |-> w(8)],
     fc_k_text |-> w(9), fc_q_text |-> w(10), fc_v_text |-> w(11),
     fc_k_img |-> w(12), fc_q_img |-> w(13), fc_v_img |-> w(14),
     fc_k_spatial |-> w(15), fc_q_spatial |-> w(16),
     to_out |-> 1 + (w(17) % 3),
     relative_positions_text |->
         RelativePosition(1, 1, 1, [r \in 0..2 |-> w(18 + r)]),
     relative_positions_img |->
         RelativePosition(1, 1, 1, [r \in 0..2 |-> w(21 + r)]),
     norm |-> [weight |-> 1 + (w(24) % 2), bias |-> w(25)],
     ff1 |-> 1 + (w(26) % 3), ff2 |-> 1 + (w(27) % 3)]

\* The persistent state of a constructed DocFormer.
Net(seed, num_hidden_layers) ==
    [status |-> "ok",
     spatial_feature |-> SpatialParams(seed),
     layers |-> [n \in 1..num_hidden_layers |-> BlockParams(seed, n)]]

\* The sum of the looked-up rows of the 8 tables of one axis.
RECURSIVE AxisValue(_, _, _)
AxisValue(tables, feature, i) ==
    IF i >= NumFeat THEN 0
    ELSE Add(tables[i][feature], AxisValue(tables, feature, i + 1))

\* DocFormerEmbeddings.forward: v_bar_s and t_bar_s.
SpatialValue(self, x_feature, y_feature) ==
    [v_bar_s |-> Add(Add(AxisValue(self.x_embedding_v, x_feature, 0),
                         AxisValue(self.y_embedding_v, y_feature, 0)), self.pe_v),
     t_bar_s |-> Add(Add(AxisValue(self.x_embedding_t, x_feature, 0),
                         AxisValue(self.y_embedding_t, y_feature, 0)), self.pe_t)]

\* nn.LayerNorm with its weight and bias.
NormValue(norm, a) == Add(Mul(norm.weight, a), norm.bias)

\* The attention scores of one modality and its context.
ContextValue(fc_k, fc_q, fc_v, fc_k_spatial, fc_q_spatial, rel_pos_embed, feat, spatial_feat) ==
    LET key_nh == Mul(fc_k, feat)
        query_nh == Mul(fc_q, feat)
        value_nh == Mul(fc_v, feat)
        dots == Mul(query_nh, key_nh)
        rel_pos_key == Mul(key_nh, rel_pos_embed)
        rel_pos_query == Mul(query_nh, rel_pos_embed)
        dots_spatial == Mul(Mul(fc_q_spatial, spatial_feat), Mul(fc_k_spatial, spatial_feat))
        attn_scores == Add(Add(Add(dots, rel_pos_key), rel_pos_query), dots_spatial)
    IN  Mul(Activation(attn_scores), value_nh)

\* MultiModalAttentionLayer.forward.
AttentionValue(self, text_feat, img_feat, text_spatial_feat, img_spatial_feat) ==
    LET rel_pos_embed_text ==
            RelativePositionForward(self.relative_positions_text, 1, 1).embeddings[0][0]
        text_context == ContextValue(self.fc_k_text, self.fc_q_text, self.fc_v_text,
                                     self.fc_k_spatial, self.fc_q_spatial,
                                     rel_pos_embed_text, text_feat, text_spatial_feat)
        img_context == ContextValue(self.fc_k_img, self.fc_q_img, self.fc_v_img,
                                    self.fc_k_spatial, self.fc_q_spatial,
                                    rel_pos_embed_text, img_feat, img_spatial_feat)
    IN  Mul(self.to_out, Add(text_context, img_context))

\* PreNormAttn.forward.
PreNormAttnValue(self, t_bar, v_bar, t_bar_s, v_bar_s) ==
    AttentionValue(self, NormValue(self.norm_t_bar, t_bar), NormValue(self.norm_v_bar, v_bar),
                   NormValue(self.norm_t_bar_s, t_bar_s), NormValue(self.norm_v_bar_s, v_bar_s))

\* PreNorm.forward around FeedForward.
PreNormValue(self, x) == Mul(self.ff2, Activation(Mul(self.ff1, NormValue(self.norm, x))))

\* DocFormerEncoder.forward run alone from layer n on; x is the value of the
\* local x (Undef before the first layer).
RECURSIVE EncoderValue(_, _, _, _, _, _, _)
EncoderValue(layers, n, x, text_feat, img_feat, text_spatial_feat, img_spatial_feat) ==
    IF n > Len(layers) THEN x
    ELSE LET skip == Add(Add(Add(text_feat, img_feat), text_spatial_feat), img_spatial_feat)
             x1 == Add(PreNormAttnValue(layers[n], text_feat, img_feat,
                                        text_spatial_feat, img_spatial_feat), skip)
             x2 == Add(PreNormValue(layers[n], x1), x1)
         IN  EncoderValue(layers, n + 1, x2, x2, img_feat, text_spatial_feat, img_spatial_feat)

\* DocFormer.forward run alone on the model self.
DocFormerValue(self, args) ==
    LET s == SpatialValue(self.spatial_feature, args.x_feature, args.y_feature)
    IN  EncoderValue(self.layers, 1, Undef, args.t_bar, args.v_bar, s.t_bar_s, s.v_bar_s)

\* The two forward calls that may run on the model at once.
Callers == {"a", "b"}

IdleCall == [pc |-> "idle"]

ForwardArgs ==
    [t_bar : FeatureValues, v_bar : FeatureValues,
     x_feature : BucketValues, y_feature : BucketValues]

\* A forward call begins with its inputs args.
Call(c) ==
    /\ calls[c].pc = "idle"
    /\ \E args \in ForwardArgs :
         calls' = [calls EXCEPT ![c] =
                     [pc |-> "extract", args |-> args, n |-> 0,
                      enc_args |-> Undef,
                      text_feat |-> Undef, img_feat |-> Undef,
                      text_spatial_feat |-> Undef, img_spatial_feat |-> Undef,
                      skip |-> Undef, x |-> Undef, output |-> Undef]]
    /\ UNCHANGED <<rp, rpOut, emb, embOut, attn, attnOut, doc, docOut, net>>

\* A mutant of Extract: the spatial embedding is accumulated in place into
\* the positional-encoding buffer.
ExtractInPlace(c) ==
    /\ calls[c].pc = "extract"
    /\ LET s == SpatialValue(net.spatial_feature, calls[c].args.x_feature,
                             calls[c].args.y_feature)
           inputs == [text_feat |-> calls[c].args.t_bar, img_feat |-> calls[c].args.v_bar,
                      text_spatial_feat |-> s.t_bar_s, img_spatial_feat |-> s.v_bar_s]
       IN  /\ calls' = [calls EXCEPT ![c] =
                          [@ EXCEPT !.pc = "skip", !.n = 1, !.enc_args = inputs,
                                    !.text_feat = inputs.text_feat,
                                    !.img_feat = inputs.img_feat,
                                    !.text_spatial_feat = inputs.text_spatial_feat,
                                    !.img_spatial_feat = inputs.img_spatial_feat]]
           /\ net' = [net EXCEPT !.spatial_feature.pe_v = s.v_bar_s]
    /\ UNCHANGED <<rp, rpOut, emb, embOut, attn, attnOut, doc, docOut>>

\* extract_feature, and the call of the encoder with its four arguments
\* (t_bar, v_bar, t_bar_s, v_bar_s).
Extract(c) ==
    /\ calls[c].pc = "extract"
    /\ LET s == SpatialValue(net.spatial_feature, calls[c].args.x_feature,
                             calls[c].args.y_feature)
           inputs == [text_feat |-> calls[c].args.t_bar, img_feat |-> calls[c].args.v_bar,
                      text_spatial_feat |-> s.t_bar_s, img_spatial_feat |-> s.v_bar_s]
       IN  calls' = [calls EXCEPT ![c] =
                       [@ EXCEPT !.pc = "skip", !.n = 1, !.enc_args = inputs,
                                 !.text_feat = inputs.text_feat,
                                 !.img_feat = inputs.img_feat,
                                 !.text_spatial_feat = inputs.text_spatial_feat,
                                 !.img_spatial_feat = inputs.img_spatial_feat]]
    /\ UNCHANGED <<rp, rpOut, emb, embOut, attn, attnOut, doc, docOut, net>>

\* A mutant of EncSkip: the skip connection is taken from the normalized
\* inputs of the block.
EncSkipNormalized(c) ==
    /\ calls[c].pc = "skip"
    /\ calls[c].n <= Len(net.layers)
    /\ LET self == net.layers[calls[c].n]
       IN  calls' = [calls EXCEPT ![c] =
                       [@ EXCEPT !.pc = "attn",
                                 !.skip = Add(Add(Add(NormValue(self.norm_t_bar, calls[c].text_feat),
                                                      NormValue(self.norm_v_bar, calls[c].img_feat)),
                                                  NormValue(self.norm_t_bar_s, calls[c].text_spatial_feat)),
                                              NormValue(self.norm_v_bar_s, calls[c].img_spatial_feat))]]
    /\ UNCHANGED <<rp, rpOut, emb, embOut, attn, attnOut, doc, docOut, net>>

\* skip = text_feat + img_feat + text_spatial_feat + img_spatial_feat
EncSkip(c) ==
    /\ calls[c].pc = "skip"
    /\ calls[c].n <= Len(net.layers)
    /\ calls' = [calls EXCEPT ![c] =
                   [@ EXCEPT !.pc = "attn",
                             !.skip = Add(Add(Add(calls[c].text_feat, calls[c].img_feat),
                                              calls[c].text_spatial_feat),
                                          calls[c].img_spatial_feat)]]
    /\ UNCHANGED <<rp, rpOut, emb, embOut, attn, attnOut, doc, docOut, net>>

\* x = attn(text_feat, img_feat, text_spatial_feat, img_spatial_feat) + skip
EncAttn(c) ==
    /\ calls[c].pc = "attn"
    /\ LET l == calls[c]
       IN  calls' = [calls EXCEPT ![c] =
                       [@ EXCEPT !.pc = "ff",
                                 !.x = Add(PreNormAttnValue(net.layers[l.n], l.text_feat,
                                                            l.img_feat, l.text_spatial_feat,
                                                            l.img_spatial_feat), l.skip)]]
    /\ UNCHANGED <<rp, rpOut, emb, embOut, attn, attnOut, doc, docOut, net>>

\* x = ff(x) + x
EncFF(c) ==
    /\ calls[c].pc = "ff"
    /\ LET l == calls[c]
       IN  calls' = [calls EXCEPT ![c] =
                       [@ EXCEPT !.pc = "assign",
                                 !.x = Add(PreNormValue(net.layers[l.n], l.x), l.x)]]
    /\ UNCHANGED <<rp, rpOut, emb, embOut, attn, attnOut, doc, docOut, net>>

\* A mutant of EncAssign: the image stream is updated like the text stream.
EncAssignBothStreams(c) ==
    /\ calls[c].pc = "assign"
    /\ calls' = [calls EXCEPT ![c] =
                   [@ EXCEPT !.pc = "skip", !.n = @ + 1, !.text_feat = calls[c].x,
                             !.img_feat = calls[c].x]]
    /\ UNCHANGED <<rp, rpOut, emb, embOut, attn, attnOut, doc, docOut, net>>

\* text_feat = x, and the loop goes on to the next block.
EncAssign(c) ==
    /\ calls[c].pc = "assign"
    /\ calls' = [calls EXCEPT ![c] =
                   [@ EXCEPT !.pc = "skip", !.n = @ + 1, !.text_feat = calls[c].x]]
    /\ UNCHANGED <<rp, rpOut, emb, embOut, attn, attnOut, doc, docOut, net>>

\* return x, after the last block; the dropout of DocFormer.forward is the
\* identity in evaluation mode.
EncReturn(c) ==
    /\ calls[c].pc = "skip"
    /\ calls[c].n > Len(net.layers)
    /\ calls' = [calls EXCEPT ![c] = [@ EXCEPT !.pc = "done", !.output = calls[c].x]]
    /\ UNCHANGED <<rp, rpOut, emb, embOut, attn, attnOut, doc, docOut, net>>

\* The constructed model: one of NumSeeds initialisations, 1..MaxLayers blocks.
InitNet ==
    /\ IdleRP /\ IdleEmb /\ IdleAttn /\ IdleDoc
    /\ \E seed \in 1..NumSeeds, num_hidden_layers \in 1..MaxLayers :
         net = Net(seed, num_hidden_layers)
    /\ calls = [c \in Callers |-> IdleCall]

NextNet ==
    \E c \in Callers :
        \/ Call(c)
        \/ Extract(c)
        \/ EncSkip(c)
        \/ EncAttn(c)
        \/ EncFF(c)
        \/ EncAssign(c)
        \/ EncReturn(c)

SpecNet == InitNet /\ [][NextNet]_vars

\* The calls inside DocFormerEncoder.forward.
InEncoder(c) == calls[c].pc \in {"skip", "attn", "ff", "assign", "done"}

\* C9: in DocFormerEncoder.forward, after any number of completed layers
\* img_feat, text_spatial_feat and img_spatial_feat are the original inputs of
\* the call, and at the start of layer n+1 text_feat is the output of layer n.
C9_OnlyTextChanges ==
    \A c \in Callers :
        InEncoder(c) =>
            /\ calls[c].img_feat = calls[c].enc_args.img_feat
            /\ calls[c].text_spatial_feat = calls[c].enc_args.text_spatial_feat
            /\ calls[c].img_spatial_feat = calls[c].enc_args.img_spatial_feat
            /\ (calls[c].n = 1 => calls[c].text_feat = calls[c].enc_args.text_feat)
            /\ (calls[c].pc = "skip" /\ calls[c].n > 1 =>
                   calls[c].text_feat =
                       EncoderValue(SubSeq(net.layers, 1, calls[c].n - 1), 1, Undef,
                                    calls[c].enc_args.text_feat, calls[c].enc_args.img_feat,
                                    calls[c].enc_args.text_spatial_feat,
                                    calls[c].enc_args.img_spatial_feat))

C9_Witness ==
    \E c \in Callers :
        /\ calls[c].pc = "skip"
        /\ calls[c].n = 2
        /\ Len(net.layers) >= 2
        /\ calls[c].text_feat # calls[c].enc_args.text_feat
        /\ calls[c].text_feat # calls[c].img_feat
        /\ calls[c].img_feat = calls[c].enc_args.img_feat

\* C10: no step of a forward call modifies the persistent state of the model,
\* so under any interleaving of two calls each returns what it returns when
\* run alone, and two calls with the same inputs return the same output.
C10_ForwardIsPure ==
    [][/\ net' = net
       /\ \A c \in Callers :
             calls'[c].pc = "done" =>
                 calls'[c].output = DocFormerValue(net, calls'[c].args)
       /\ \A c, d \in Callers :
             (calls'[c].pc = "done" /\ calls'[d].pc = "done"
                  /\ calls'[c].args = calls'[d].args)
                 => calls'[c].output = calls'[d].output]_vars

C10_Witness ==
    /\ calls["a"].pc = "done"
    /\ calls["b"].pc = "ff"
    /\ calls["a"].args # calls["b"].args
    /\ calls["a"].output # Undef


\* The x of one block after its attention step, written out: attention of the
\* four normalized inputs plus the sum of the four raw inputs.
AfterAttention(self, text_feat, img_feat, text_spatial_feat, img_spatial_feat) ==
    Add(AttentionValue(self, NormValue(self.norm_t_bar, text_feat),
                       NormValue(self.norm_v_bar, img_feat),
                       NormValue(self.norm_t_bar_s, text_spatial_feat),
                       NormValue(self.norm_v_bar_s, img_spatial_feat)),
        Add(Add(Add(text_feat, img_feat), text_spatial_feat), img_spatial_feat))

\* The x of one block after its feed-forward step: feedforward(norm(x)) + x.
AfterFeedForward(self, x) ==
    Add(Mul(self.ff2, Activation(Mul(self.ff1, NormValue(self.norm, x)))), x)

\* The x after the first k blocks of layers, taken in construction order, on
\* the encoder inputs e (e.text_feat when k = 0).
RECURSIVE AfterBlocks(_, _, _)
AfterBlocks(layers, k, e) ==
    IF k = 0 THEN e.text_feat
    ELSE AfterFeedForward(layers[k],
             AfterAttention(layers[k], AfterBlocks(layers, k - 1, e), e.img_feat,
                            e.text_spatial_feat, e.img_spatial_feat))

\* C11: DocFormerEncoder.forward runs exactly num_hidden_layers blocks in
\* construction order; in each block x = attention(norm of the four inputs) +
\* the sum of the four un-normalized inputs of that block, then
\* x = feedforward(norm(x)) + x; the value returned is the x of the last block.
C11_BlockUpdate ==
    \A c \in Callers :
        InEncoder(c) =>
            LET l == calls[c]
                x1 == AfterAttention(net.layers[l.n], l.text_feat, l.img_feat,
                                     l.text_spatial_feat, l.img_spatial_feat)
            IN  /\ l.pc \in {"attn", "ff", "assign"} => l.n \in 1..Len(net.layers)
                /\ l.pc \in {"skip", "attn", "ff", "assign"} =>
                       l.text_feat = AfterBlocks(net.layers, l.n - 1, l.enc_args)
                /\ l.pc = "ff" => l.x = x1
                /\ l.pc = "assign" => l.x = AfterFeedForward(net.layers[l.n], x1)
                /\ l.pc = "done" =>
                       /\ l.n = Len(net.layers) + 1
                       /\ l.output = l.x
                       /\ l.output = AfterBlocks(net.layers, Len(net.layers), l.enc_args)

C11_Witness ==
    \E c \in Callers :
        /\ calls[c].pc = "done"
        /\ Len(net.layers) >= 2
        /\ calls[c].output # AfterBlocks(net.layers, 1, calls[c].enc_args)
        /\ calls[c].output # calls[c].enc_args.text_feat


\* C15: the index table of RelativePosition depends only on k - q and is
\* antisymmetric about the centre row: final_mat[q][k] + final_mat[k][q] =
\* 2 * max_relative_position, every diagonal entry is max_relative_position,
\* and final_mat[q][k] = final_mat[q+1][k+1] whenever both are in range.
C15_Antisymmetric ==
    rp.status = "ok" =>
        LET m == rp.max_relative_position
            P == 0..(rp.max_length - 1)
        IN  \A q \in P : \A k \in P :
                /\ rp.final_mat[q][k] + rp.final_mat[k][q] = 2 * m
                /\ rp.final_mat[q][q] = m
                /\ (q + 1 \in P /\ k + 1 \in P =>
                       rp.final_mat[q][k] = rp.final_mat[q + 1][k + 1])
                /\ \A q2 \in P : \A k2 \in P :
                       k2 - q2 = k - q => rp.final_mat[q2][k2] = rp.final_mat[q][k]

C15_Witness ==
    /\ rp.status = "ok"
    /\ rp.max_length = 3
    /\ rp.max_relative_position = 2
    /\ rp.final_mat[0][2] = 4
    /\ rp.final_mat[2][0] = 0
    /\ rp.final_mat[0][1] = 3
    /\ rp.final_mat[1][2] = 3
    /\ rp.final_mat[1][0] = 1


\* The tables written to hidden column p of the tensor of one axis and stream
\* when the i-th table fills the i-th of 8 equal sub-bands, once.
BandWriters(axis, stream, hidden_size, p) ==
    << <<axis, stream, p \div (hidden_size \div NumFeat)>> >>

\* C14: in DocFormerEmbeddings.forward with hidden_size divisible by 8, feature
\* i of the x column is embedded by the i-th x table and of the y column by the
\* i-th y table of that stream and written to hidden positions
\* [i*hidden_size/8, (i+1)*hidden_size/8); the sub-bands are disjoint and cover
\* 0..hidden_size-1, so every position is written exactly once per axis, and
\* the visual and text streams use separate tables.
C14_SubBands ==
    (embOut.status = "ok" /\ emb.config.hidden_size % NumFeat = 0) =>
        LET hidden_size == emb.config.hidden_size
            P == 0..(hidden_size - 1)
        IN  /\ DOMAIN embOut.v_bar_s.x_cols = P /\ DOMAIN embOut.v_bar_s.y_cols = P
            /\ DOMAIN embOut.t_bar_s.x_cols = P /\ DOMAIN embOut.t_bar_s.y_cols = P
            /\ \A p \in P :
                 /\ embOut.v_bar_s.x_cols[p] = BandWriters("x", "v", hidden_size, p)
                 /\ embOut.v_bar_s.y_cols[p] = BandWriters("y", "v", hidden_size, p)
                 /\ embOut.t_bar_s.x_cols[p] = BandWriters("x", "t", hidden_size, p)
                 /\ embOut.t_bar_s.y_cols[p] = BandWriters("y", "t", hidden_size, p)
            /\ \A i \in 0..(NumFeat - 1) :
                 /\ emb.x_embedding_v[i].id = <<"x", "v", i>>
                 /\ emb.y_embedding_v[i].id = <<"y", "v", i>>
                 /\ emb.x_embedding_t[i].id = <<"x", "t", i>>
                 /\ emb.y_embedding_t[i].id = <<"y", "t", i>>

C14_Witness ==
    /\ embOut.status = "ok"
    /\ emb.config.hidden_size = 16
    /\ emb.config.coordinate_size = 2
    /\ emb.config.shape_size = 2
    /\ embOut.v_bar_s.x_cols[3] = << <<"x", "v", 1>> >>
    /\ embOut.t_bar_s.y_cols[15] = << <<"y", "t", 7>> >>


(***************************************************************************)
(* MultiModalAttentionLayer on tensors of values.  A tensor is its shape   *)
(* and its entries in row-major order; an index is a tuple counted from 0. *)
(* Entries are elements of the ring of integers modulo ValMod.             *)
(***************************************************************************)

RECURSIVE Numel(_)
Numel(shape) == IF shape = <<>> THEN 1 ELSE shape[1] * Numel(Tail(shape))

\* The number of entries one step along dimension k skips.
Stride(shape, k) == Numel(SubSeq(shape, k + 1, Len(shape)))

\* The index of the i-th entry (i from 1), and the place of an index.
Unravel(shape, i) ==
    AsShape([k \in 1..Len(shape) |-> ((i - 1) \div Stride(shape, k)) % shape[k]])

RECURSIVE Ravel(_, _, _)
Ravel(shape, idx, k) ==
    IF k > Len(shape) THEN 1 ELSE idx[k] * Stride(shape, k) + Ravel(shape, idx, k + 1)

At(T, idx) == T.val[Ravel(T.shape, idx, 1)]

\* The sum of f[0], ..., f[n-1] in the ring.
RECURSIVE SumTo(_, _)
SumTo(f, n) == IF n = 0 THEN 0 ELSE Add(f[n - 1], SumTo(f, n - 1))

\* The weight and bias of nn.Linear(n, n) of a layer initialised with seed;
\* k tells the linear maps of one layer apart.
LinearParams(seed, k, n) ==
    [weight |-> [o \in 0..(n - 1) |-> [i \in 0..(n - 1) |-> Weight(seed, k + o * n + i)]],
     bias |-> [o \in 0..(n - 1) |-> Weight(seed, k + o + 1)]]

\* nn.Linear.forward: y[..., o] = sum_i x[..., i] * weight[o][i] + bias[o].
LinearTensor(self, T) ==
    LET r == Len(T.shape)
        n == T.shape[r]
    IN  [shape |-> T.shape,
         val |-> AsShape([p \in 1..Numel(T.shape) |->
                    LET idx == Unravel(T.shape, p)
                    IN  Add(SumTo([i \in 0..(n - 1) |->
                                     Mul(At(T, [idx EXCEPT ![r] = i]),
                                         self.weight[idx[r]][i])], n),
                            self.bias[idx[r]])])]

\* rearrange(x, 'b t (head k) -> head b t k', head=head) on values.
RearrangeSplitTensor(T, head) ==
    LET shape == RearrangeSplit(T.shape, head)
    IN  [shape |-> shape,
         val |-> AsShape([p \in 1..Numel(shape) |->
                    LET idx == Unravel(shape, p)
                    IN  At(T, <<idx[2], idx[3], idx[1] * shape[4] + idx[4]>>)])]

\* rearrange(x, 'head b t d -> b t (head d)') on values.
RearrangeMergeTensor(T) ==
    LET shape == RearrangeMerge(T.shape)
        d == T.shape[4]
    IN  [shape |-> shape,
         val |-> AsShape([p \in 1..Numel(shape) |->
                    LET idx == Unravel(shape, p)
                    IN  At(T, <<idx[3] \div d, idx[1], idx[2], idx[3] % d>>)])]

\* The sum of f over the finite set S.
RECURSIVE SumOver(_, _)
SumOver(S, f) ==
    IF S = {} THEN 0
    ELSE LET e == CHOOSE x \in S : TRUE IN Add(f[e], SumOver(S \ {e}, f))

\* torch.einsum on two operands, on values: the subscripts are bound to the
\* dimensions by position, and the subscripts absent from out are summed.
EinsumTensor(l1, l2, out, A, B) ==
    LET shape == Einsum(l1, l2, out, A.shape, B.shape)
        labels == {l1[i] : i \in 1..Len(l1)} \cup {l2[i] : i \in 1..Len(l2)}
        summed == labels \ {out[i] : i \in 1..Len(out)}
        size == [c \in summed |->
                    CHOOSE n \in LabelSizes(c, l1, A.shape, l2, B.shape) :
                        \A n2 \in LabelSizes(c, l1, A.shape, l2, B.shape) : n2 <= n]
        big == CHOOSE n \in {size[c] : c \in summed} \cup {1} :
                   \A c \in summed : size[c] <= n
        envs == {e \in [summed -> 0..(big - 1)] : \A c \in summed : e[c] < size[c]}
        Bound(c, o, e) ==
            IF c \in summed THEN e[c]
            ELSE o[CHOOSE j \in 1..Len(out) : out[j] = c]
        Index(l, T, o, e) ==
            [j \in 1..Len(l) |-> IF T.shape[j] = 1 THEN 0 ELSE Bound(l[j], o, e)]
    IN  [shape |-> shape,
         val |-> AsShape([p \in 1..Numel(shape) |->
                    LET o == Unravel(shape, p)
                    IN  SumOver(envs, [e \in envs |->
                            Mul(At(A, Index(l1, A, o, e)), At(B, Index(l2, B, o, e)))])])]

\* The elementwise sum of two tensors of the same shape.
AddTensor(A, B) ==
    [shape |-> Broadcast(A.shape, B.shape),
     val |-> AsShape([p \in 1..Numel(A.shape) |-> Add(A.val[p], B.val[p])])]

\* x / self.scale: the division by the constant sqrt(embed_dim) is the
\* product with a fixed unit of the ring.
ScaleTensor(T, embed_dim) ==
    [shape |-> T.shape,
     val |-> AsShape([p \in 1..Numel(T.shape) |->
                Mul(T.val[p], 1 + (embed_dim % (ValMod - 1)))])]

\* torch.softmax(x, dim=-1): an entry is a function of itself and of its row.
SoftmaxTensor(T) ==
    LET r == Len(T.shape)
        n == T.shape[r]
    IN  [shape |-> T.shape,
         val |-> AsShape([p \in 1..Numel(T.shape) |->
                    LET idx == Unravel(T.shape, p)
                    IN  Mul(Activation(T.val[p]),
                            Activation(SumTo([t \in 0..(n - 1) |->
                                                At(T, [idx EXCEPT ![r] = t])], n)))])]


\* The seeds the parameters on values are drawn with.
TableSeeds == {1, 2}
WeightSeeds == {1, 2}

\* The embeddings_table of a RelativePosition with rows rows of units entries,
\* as xavier_uniform_ may draw it: one table per seed.
UnitTables(rows, units) ==
    { [r \in 0..(rows - 1) |-> [d \in 0..(units - 1) |-> Weight(s, r * units + d + 1)]] :
          s \in TableSeeds }

\* The linear maps of MultiModalAttentionLayer.__init__.
AttentionWeights(seed, embed_dim) ==
    [fc_k_text |-> LinearParams(seed, 1, embed_dim),
     fc_q_text |-> LinearParams(seed, 2, embed_dim),
     fc_v_text |-> LinearParams(seed, 3, embed_dim),
     fc_k_img |-> LinearParams(seed, 4, embed_dim),
     fc_q_img |-> LinearParams(seed, 5, embed_dim),
     fc_v_img |-> LinearParams(seed, 6, embed_dim),
     fc_k_spatial |-> LinearParams(seed, 7, embed_dim),
     fc_q_spatial |-> LinearParams(seed, 8, embed_dim),
     to_out |-> LinearParams(seed, 9, embed_dim)]

\* RelativePosition.forward as a tensor of shape (length_q, length_k, units).
RelPosTensor(self, length_q, length_k) ==
    LET r == RelativePositionForward(self, length_q, length_k)
    IN  [shape |-> r.shape,
         val |-> AsShape([p \in 1..Numel(r.shape) |->
                    LET idx == Unravel(r.shape, p)
                    IN  r.embeddings[idx[1]][idx[2]][idx[3]]])]

\* A tensor not yet computed.
NoTensor == [shape |-> <<>>, val |-> <<>>]

\* The locals of one modality of a forward call.
NoModality ==
    [key_nh |-> NoTensor, query_nh |-> NoTensor, value_nh |-> NoTensor,
     dots |-> NoTensor, rel_pos_key |-> NoTensor, rel_pos_query |-> NoTensor,
     key_spatial_nh |-> NoTensor, query_spatial_nh |-> NoTensor,
     dots_spatial |-> NoTensor, attn_scores |-> NoTensor, attn_probs |-> NoTensor]

\* The locals of a forward call at its entry; pc is the modality and the
\* statement the call is at.
NewFrame ==
    [pc |-> <<"text", "project">>, text |-> NoModality, img |-> NoModality,
     rel_pos_embed_text |-> NoTensor, rel_pos_embed_img |-> NoTensor,
     text_context |-> NoTensor, img_context |-> NoTensor,
     context |-> NoTensor, out |-> NoTensor]

\* The input and the projections of modality M ("text" or "img").
Feat(M) == IF M = "text" THEN attnOut.inputs.text_feat ELSE attnOut.inputs.img_feat
SpatialFeat(M) ==
    IF M = "text" THEN attnOut.inputs.text_spatial_feat ELSE attnOut.inputs.img_spatial_feat
FcK(M) == IF M = "text" THEN attn.fc_k_text ELSE attn.fc_k_img
FcQ(M) == IF M = "text" THEN attn.fc_q_text ELSE attn.fc_q_img
FcV(M) == IF M = "text" THEN attn.fc_v_text ELSE attn.fc_v_img

Modalities == {"text", "img"}

AtStage(M, stage) == attnOut.status = "running" /\ attnOut.cur.pc = <<M, stage>>

\* The sizes the layers and inputs on values are drawn from.
EmbedDims == {1, 2, 4}
HeadCounts == {1, 2}
RelPosLimits == {0, 1}
SeqLengths == {1, 2}
BatchSizes == {1, 2}

\* An input tensor of a shape, its entries drawn with seed.
InputTensor(shape, seed, k) ==
    [shape |-> shape, val |-> AsShape([p \in 1..Numel(shape) |-> Weight(seed, p + k)])]

\* The four inputs of a forward call.
AttentionInputs(batch, seq_length, embed_dim, seed) ==
    [text_feat |-> InputTensor(<<batch, seq_length, embed_dim>>, seed, 1),
     img_feat |-> InputTensor(<<batch, seq_length, embed_dim>>, seed, 2),
     text_spatial_feat |-> InputTensor(<<batch, seq_length, embed_dim>>, seed, 3),
     img_spatial_feat |-> InputTensor(<<batch, seq_length, embed_dim>>, seed, 4)]

\* MultiModalAttentionLayer.__init__ with its drawn parameters: seed draws
\* the linear maps and the text table.
TensorConstruct ==
    /\ attn.status = "none"
    /\ \E embed_dim \in EmbedDims, n_heads \in HeadCounts, m \in RelPosLimits,
          L \in SeqLengths, seed \in WeightSeeds :
         LET units == Max(embed_dim \div n_heads, 1)
             table_text == [r \in 0..(m * 2) |-> [d \in 0..(units - 1) |->
                               Weight(seed, r * units + d + 1)]]
         IN  \E table_img \in UnitTables(m * 2 + 1, units) :
                attn' = (MultiModalAttentionLayer(embed_dim, n_heads, m, L, table_text, table_img)
                             @@ AttentionWeights(seed, embed_dim))
    /\ UNCHANGED <<rp, rpOut, emb, embOut, attnOut, doc, docOut, net, calls>>

\* The first forward call on the layer begins.
TensorCall ==
    /\ attn.status = "ok"
    /\ attnOut.status = "none"
    /\ \E batch \in BatchSizes, seq_length \in 1..attn.relative_positions_text.max_length,
          seed \in 1..NumSeeds :
         attnOut' = [status |-> "running",
                     inputs |-> AttentionInputs(batch, seq_length, attn.embed_dim, seed),
                     runs |-> <<>>, cur |-> NewFrame]
    /\ UNCHANGED <<rp, rpOut, emb, embOut, attn, doc, docOut, net, calls>>

\* A second forward call on the same inputs begins.
TensorCallAgain ==
    /\ attnOut.status = "returned"
    /\ Len(attnOut.runs) = 1
    /\ attnOut' = [attnOut EXCEPT !.status = "running", !.cur = NewFrame]
    /\ UNCHANGED <<rp, rpOut, emb, embOut, attn, doc, docOut, net, calls>>

\* key_nh, query_nh, value_nh = rearrange(self.fc_*(feat), 'b t (head k) -> head b t k')
Project(M) ==
    /\ AtStage(M, "project")
    /\ attnOut' = [attnOut EXCEPT
          !.cur.pc = <<M, "dots">>,
          !.cur[M].key_nh = RearrangeSplitTensor(LinearTensor(FcK(M), Feat(M)), attn.n_heads),
          !.cur[M].query_nh = RearrangeSplitTensor(LinearTensor(FcQ(M), Feat(M)), attn.n_heads),
          !.cur[M].value_nh = RearrangeSplitTensor(LinearTensor(FcV(M), Feat(M)), attn.n_heads)]
    /\ UNCHANGED <<rp, rpOut, emb, embOut, attn, doc, docOut, net, calls>>

\* dots = torch.einsum('hblk,hbtk->hblt', query_nh, key_nh) / self.scale
Dots(M) ==
    /\ AtStage(M, "dots")
    /\ attnOut' = [attnOut EXCEPT
          !.cur.pc = <<M, "rel_pos_embed">>,
          !.cur[M].dots =
              ScaleTensor(EinsumTensor(<<"h","b","l","k">>, <<"h","b","t","k">>,
                                       <<"h","b","l","t">>,
                                       attnOut.cur[M].query_nh, attnOut.cur[M].key_nh),
                          attn.embed_dim)]
    /\ UNCHANGED <<rp, rpOut, emb, embOut, attn, doc, docOut, net, calls>>

\* rel_pos_embed_text = self.relative_positions_text(seq_length, seq_length),
\* and rel_pos_embed_img likewise in the image part; seq_length is
\* text_feat.shape[1] in both.
RelPosEmbed(M) ==
    /\ AtStage(M, "rel_pos_embed")
    /\ LET seq_length == attnOut.inputs.text_feat.shape[2]
       IN  attnOut' =
               IF M = "text"
               THEN [attnOut EXCEPT
                        !.cur.pc = <<M, "rel_pos_terms">>,
                        !.cur.rel_pos_embed_text =
                            RelPosTensor(attn.relative_positions_text, seq_length, seq_length)]
               ELSE [attnOut EXCEPT
                        !.cur.pc = <<M, "rel_pos_terms">>,
                        !.cur.rel_pos_embed_img =
                            RelPosTensor(attn.relative_positions_img, seq_length, seq_length)]
    /\ UNCHANGED <<rp, rpOut, emb, embOut, attn, doc, docOut, net, calls>>

\* A mutant of RelPosTerms: the image part uses rel_pos_embed_img.
RelPosTermsOwnTable(M) ==
    /\ AtStage(M, "rel_pos_terms")
    /\ LET rel_pos_embed == IF M = "text" THEN attnOut.cur.rel_pos_embed_text
                            ELSE attnOut.cur.rel_pos_embed_img
       IN  attnOut' = [attnOut EXCEPT
              !.cur.pc = <<M, "spatial_project">>,
              !.cur[M].rel_pos_key =
                  EinsumTensor(<<"b","h","r","d">>, <<"l","r","d">>, <<"b","h","l","r">>,
                               attnOut.cur[M].key_nh, rel_pos_embed),
              !.cur[M].rel_pos_query =
                  EinsumTensor(<<"b","h","l","d">>, <<"l","r","d">>, <<"b","h","l","r">>,
                               attnOut.cur[M].query_nh, rel_pos_embed)]
    /\ UNCHANGED <<rp, rpOut, emb, embOut, attn, doc, docOut, net, calls>>

\* A mutant of RelPosTerms: the relative-key term reads the key at the query
\* position, einsum('bhld,lrd->bhlr') for both terms.
RelPosTermsKeyAtQuery(M) ==
    /\ AtStage(M, "rel_pos_terms")
    /\ attnOut' = [attnOut EXCEPT
          !.cur.pc = <<M, "spatial_project">>,
          !.cur[M].rel_pos_key =
              EinsumTensor(<<"b","h","l","d">>, <<"l","r","d">>, <<"b","h","l","r">>,
                           attnOut.cur[M].key_nh, attnOut.cur.rel_pos_embed_text),
          !.cur[M].rel_pos_query =
              EinsumTensor(<<"b","h","l","d">>, <<"l","r","d">>, <<"b","h","l","r">>,
                           attnOut.cur[M].query_nh, attnOut.cur.rel_pos_embed_text)]
    /\ UNCHANGED <<rp, rpOut, emb, embOut, attn, doc, docOut, net, calls>>

\* rel_pos_key = torch.einsum('bhrd,lrd->bhlr', key_nh, rel_pos_embed_text)
\* rel_pos_query = torch.einsum('bhld,lrd->bhlr', query_nh, rel_pos_embed_text)
\* in the text part and in the image part alike.
RelPosTerms(M) ==
    /\ AtStage(M, "rel_pos_terms")
    /\ attnOut' = [attnOut EXCEPT
          !.cur.pc = <<M, "spatial_project">>,
          !.cur[M].rel_pos_key =
              EinsumTensor(<<"b","h","r","d">>, <<"l","r","d">>, <<"b","h","l","r">>,
                           attnOut.cur[M].key_nh, attnOut.cur.rel_pos_embed_text),
          !.cur[M].rel_pos_query =
              EinsumTensor(<<"b","h","l","d">>, <<"l","r","d">>, <<"b","h","l","r">>,
                           attnOut.cur[M].query_nh, attnOut.cur.rel_pos_embed_text)]
    /\ UNCHANGED <<rp, rpOut, emb, embOut, attn, doc, docOut, net, calls>>

\* key_spatial_nh, query_spatial_nh = rearrange(self.fc_*_spatial(spatial_feat), ...)
SpatialProject(M) ==
    /\ AtStage(M, "spatial_project")
    /\ attnOut' = [attnOut EXCEPT
          !.cur.pc = <<M, "spatial_dots">>,
          !.cur[M].key_spatial_nh =
              RearrangeSplitTensor(LinearTensor(attn.fc_k_spatial, SpatialFeat(M)), attn.n_heads),
          !.cur[M].query_spatial_nh =
              RearrangeSplitTensor(LinearTensor(attn.fc_q_spatial, SpatialFeat(M)), attn.n_heads)]
    /\ UNCHANGED <<rp, rpOut, emb, embOut, attn, doc, docOut, net, calls>>

\* dots_spatial = torch.einsum('hblk,hbtk->hblt', query_spatial_nh, key_spatial_nh) / self.scale
SpatialDots(M) ==
    /\ AtStage(M, "spatial_dots")
    /\ attnOut' = [attnOut EXCEPT
          !.cur.pc = <<M, "scores">>,
          !.cur[M].dots_spatial =
              ScaleTensor(EinsumTensor(<<"h","b","l","k">>, <<"h","b","t","k">>,
                                       <<"h","b","l","t">>,
                                       attnOut.cur[M].query_spatial_nh,
                                       attnOut.cur[M].key_spatial_nh),
                          attn.embed_dim)]
    /\ UNCHANGED <<rp, rpOut, emb, embOut, attn, doc, docOut, net, calls>>

\* attn_scores = dots + rel_pos_key + rel_pos_query + dots_spatial; the image
\* part follows the text part, the softmax follows the image part.
Scores(M) ==
    /\ AtStage(M, "scores")
    /\ attnOut' = [attnOut EXCEPT
          !.cur.pc = IF M = "text" THEN <<"img", "project">> ELSE <<"both", "softmax">>,
          !.cur[M].attn_scores =
              AddTensor(AddTensor(AddTensor(attnOut.cur[M].dots, attnOut.cur[M].rel_pos_key),
                                  attnOut.cur[M].rel_pos_query),
                        attnOut.cur[M].dots_spatial)]
    /\ UNCHANGED <<rp, rpOut, emb, embOut, attn, doc, docOut, net, calls>>

\* text_attn_probs, img_attn_probs = softmax(attn_scores, dim=-1); the dropout
\* is the identity in evaluation mode.
Softmax ==
    /\ AtStage("both", "softmax")
    /\ attnOut' = [attnOut EXCEPT
          !.cur.pc = <<"both", "context">>,
          !.cur.text.attn_probs = SoftmaxTensor(attnOut.cur.text.attn_scores),
          !.cur.img.attn_probs = SoftmaxTensor(attnOut.cur.img.attn_scores)]
    /\ UNCHANGED <<rp, rpOut, emb, embOut, attn, doc, docOut, net, calls>>

\* text_context, img_context = torch.einsum('hblt,hbtv->hblv', attn_probs, value_nh)
Contexts ==
    /\ AtStage("both", "context")
    /\ attnOut' = [attnOut EXCEPT
          !.cur.pc = <<"both", "fuse">>,
          !.cur.text_context =
              EinsumTensor(<<"h","b","l","t">>, <<"h","b","t","v">>, <<"h","b","l","v">>,
                           attnOut.cur.text.attn_probs, attnOut.cur.text.value_nh),
          !.cur.img_context =
              EinsumTensor(<<"h","b","l","t">>, <<"h","b","t","v">>, <<"h","b","l","v">>,
                           attnOut.cur.img.attn_probs, attnOut.cur.img.value_nh)]
    /\ UNCHANGED <<rp, rpOut, emb, embOut, attn, doc, docOut, net, calls>>

\* context = text_context + img_context
Fuse ==
    /\ AtStage("both", "fuse")
    /\ attnOut' = [attnOut EXCEPT
          !.cur.pc = <<"both", "return">>,
          !.cur.context = AddTensor(attnOut.cur.text_context, attnOut.cur.img_context)]
    /\ UNCHANGED <<rp, rpOut, emb, embOut, attn, doc, docOut, net, calls>>

\* return self.to_out(rearrange(context, 'head b t d -> b t (head d)'))
TensorReturn ==
    /\ AtStage("both", "return")
    /\ LET out == LinearTensor(attn.to_out, RearrangeMergeTensor(attnOut.cur.context))
       IN  attnOut' = [attnOut EXCEPT
              !.status = "returned",
              !.cur = NewFrame,
              !.runs = Append(@, [attnOut.cur EXCEPT !.out = out])]
    /\ UNCHANGED <<rp, rpOut, emb, embOut, attn, doc, docOut, net, calls>>

\* The contents of relative_positions_img.embeddings_table are replaced (a
\* training step, a loaded checkpoint) between two calls; nothing else of the
\* layer changes.
ImgTableWrite ==
    /\ attn.status = "ok"
    /\ attnOut.status = "returned"
    /\ Len(attnOut.runs) = 1
    /\ \E table_img \in UnitTables(attn.relative_positions_img.max_relative_position * 2 + 1,
                                   attn.head_dim) :
         /\ table_img # attn.relative_positions_img.embeddings_table
         /\ attn' = [attn EXCEPT !.relative_positions_img.embeddings_table = table_img]
    /\ UNCHANGED <<rp, rpOut, emb, embOut, attnOut, doc, docOut, net, calls>>

InitTensor == IdleRP /\ IdleEmb /\ IdleAttn /\ IdleDoc /\ IdleNet

NextTensor ==
    \/ TensorConstruct
    \/ TensorCall
    \/ TensorCallAgain
    \/ \E M \in Modalities :
          \/ Project(M)
          \/ Dots(M)
          \/ RelPosEmbed(M)
          \/ RelPosTerms(M)
          \/ SpatialProject(M)
          \/ SpatialDots(M)
          \/ Scores(M)
    \/ Softmax
    \/ Contexts
    \/ Fuse
    \/ TensorReturn
    \/ ImgTableWrite

SpecTensor == InitTensor /\ [][NextTensor]_vars

\* C12: the image branch's relative-key and relative-query scores are computed
\* from the text relative-position embedding, so two runs that differ only in
\* the contents of relative_positions_img.embeddings_table have the same image
\* attention scores and the same layer output.
C12_ImgTableIgnored ==
    (attnOut.status = "returned" /\ Len(attnOut.runs) = 2) =>
        LET first == attnOut.runs[1]
            second == attnOut.runs[2]
        IN  /\ second.img.rel_pos_key = first.img.rel_pos_key
            /\ second.img.rel_pos_query = first.img.rel_pos_query
            /\ second.img.attn_scores = first.img.attn_scores
            /\ second.out = first.out
            /\ second.img.rel_pos_key =
                   EinsumTensor(<<"b","h","r","d">>, <<"l","r","d">>, <<"b","h","l","r">>,
                                second.img.key_nh, second.rel_pos_embed_text)
            /\ second.img.rel_pos_query =
                   EinsumTensor(<<"b","h","l","d">>, <<"l","r","d">>, <<"b","h","l","r">>,
                                second.img.query_nh, second.rel_pos_embed_text)

C12_Witness ==
    /\ attnOut.status = "returned"
    /\ Len(attnOut.runs) = 2
    /\ attnOut.runs[1].rel_pos_embed_img # attnOut.runs[2].rel_pos_embed_img
    /\ attnOut.runs[1].rel_pos_embed_text = attnOut.runs[2].rel_pos_embed_text
    /\ attnOut.runs[2].rel_pos_embed_img # attnOut.runs[2].rel_pos_embed_text
    /\ attnOut.inputs.text_feat.shape = <<2, 2, 4>>
    /\ attn.n_heads = 2


\* The four score components of one modality of a run, entry by entry: M holds
\* the tensors of the modality, E the relative-position lookup used, and
\* spatial_feat the spatial input of the modality.
ScoreEquation(self, M, E, spatial_feat) ==
    LET H == self.n_heads
        D == self.head_dim
        B == spatial_feat.shape[1]
        L == spatial_feat.shape[2]
        q_spatial == LinearTensor(self.fc_q_spatial, spatial_feat)
        k_spatial == LinearTensor(self.fc_k_spatial, spatial_feat)
    IN  /\ M.attn_scores.shape = <<H, B, L, L>>
        /\ \A h \in 0..(H - 1), b \in 0..(B - 1), l \in 0..(L - 1), t \in 0..(L - 1) :
             LET i == <<h, b, l, t>> IN
             /\ At(M.attn_scores, i) =
                    Add(Add(Add(At(M.dots, i), At(M.rel_pos_key, i)),
                            At(M.rel_pos_query, i)), At(M.dots_spatial, i))
             /\ At(M.rel_pos_key, i) =
                    SumTo([d \in 0..(D - 1) |->
                              Mul(At(M.key_nh, <<h, b, t, d>>), At(E, <<l, t, d>>))], D)
             /\ At(M.rel_pos_query, i) =
                    SumTo([d \in 0..(D - 1) |->
                              Mul(At(M.query_nh, <<h, b, l, d>>), At(E, <<l, t, d>>))], D)
             /\ At(M.dots_spatial, i) =
                    Mul(SumTo([k \in 0..(D - 1) |->
                                  Mul(At(q_spatial, <<b, l, h * D + k>>),
                                      At(k_spatial, <<b, t, h * D + k>>))], D),
                        1 + (self.embed_dim % (ValMod - 1)))

\* C13: for each modality, head h, batch item b, query position l and key
\* position t the pre-softmax score is content + rel_key + rel_query + spatial
\* with rel_key[h,b,l,t] = sum_d key[h,b,t,d] * E[l,t,d] and
\* rel_query[h,b,l,t] = sum_d query[h,b,l,d] * E[l,t,d], the spatial term uses
\* fc_q_spatial and fc_k_spatial for both modalities, and the two modality
\* contexts are added elementwise.
C13_ScoreSum ==
    attnOut.status = "returned" =>
        \A n \in 1..Len(attnOut.runs) :
            LET run == attnOut.runs[n] IN
            /\ ScoreEquation(attn, run.text, run.rel_pos_embed_text,
                             attnOut.inputs.text_spatial_feat)
            /\ ScoreEquation(attn, run.img, run.rel_pos_embed_text,
                             attnOut.inputs.img_spatial_feat)
            /\ run.context.shape = run.text_context.shape
            /\ run.context.shape = run.img_context.shape
            /\ \A p \in 1..Numel(run.context.shape) :
                 run.context.val[p] = Add(run.text_context.val[p], run.img_context.val[p])

C13_Witness ==
    /\ attnOut.status = "returned"
    /\ attn.n_heads = 2
    /\ attn.head_dim = 2
    /\ attn.relative_positions_text.max_relative_position = 1
    /\ attnOut.inputs.text_feat.shape = <<2, 2, 4>>
    /\ attnOut.runs[1].text.attn_scores.shape = <<2, 2, 2, 2>>
    /\ attnOut.runs[1].text.rel_pos_key # attnOut.runs[1].text.rel_pos_query
    /\ attnOut.runs[1].text.attn_scores # attnOut.runs[1].img.attn_scores
    /\ attnOut.runs[1].text.dots_spatial # attnOut.runs[1].img.dots_spatial


====
